---- MODULE Spec2Model ----
(***************************************************************************)
(* A model of the humane slog.Handler (src/humane.go).                     *)
(*                                                                         *)
(* A Go string is a sequence of bytes.  An ASCII byte is written as the    *)
(* one-character string holding it ("a", " ", "\n"); a byte >= 0x80 is     *)
(* written by its hexadecimal name ("xC3").  A []string slice is a slice   *)
(* header [ptr, len, cap] over a backing array kept in the heap `arrays`.  *)
(***************************************************************************)
EXTENDS Integers, Sequences, FiniteSets, TLC

VARIABLES
    handlers,   \* handler id -> the fields of that *handler (humane.go:31-40)
    arrays,     \* heap of backing arrays of the groups slices: ptr -> elements
    locks,      \* mutex id -> goroutine holding it (0: unlocked)
    sink,       \* what the io.Writer w has received so far: a sequence of
                \* chunks of bytes, each with the Write call that brought it
    chain,      \* history: handler id -> the derivation frames that made it
    gor,        \* goroutine id -> the call it is executing and its locals
    last,       \* the most recent completed call and what it returned
    nhandle     \* number of Handle calls started so far

vars == <<handlers, arrays, locks, sink, chain, gor, last, nhandle>>

---------------------------------------------------------------------------
(* Bounds of the model.                                                    *)

MaxHandlers == 5        \* handlers Spec creates, the root included
MaxHandles == 1         \* Handle calls Spec makes
NumGor == 2             \* goroutines of SpecConc
MaxConcHandlers == 2    \* handlers SpecConc creates, the root included
MaxConcHandles == 2     \* Handle calls SpecConc starts
MaxEncHandlers == 2     \* handlers SpecEnc creates, the root included

---------------------------------------------------------------------------
(* Sequences and strings.                                                  *)

RECURSIVE Concat(_)
Concat(ss) == IF ss = <<>> THEN <<>> ELSE Head(ss) \o Concat(Tail(ss))

RECURSIVE Join(_, _)
Join(elems, sep) ==
    IF elems = <<>> THEN <<>>
    ELSE IF Len(elems) = 1 THEN elems[1]
    ELSE elems[1] \o sep \o Join(Tail(elems), sep)

Digit(d) == <<"0", "1", "2", "3", "4", "5", "6", "7", "8", "9">>[d + 1]

RECURSIVE FormatUint(_)
FormatUint(n) ==
    IF n < 10 THEN <<Digit(n)>> ELSE FormatUint(n \div 10) \o <<Digit(n % 10)>>

FormatInt(n) == IF n < 0 THEN <<"-">> \o FormatUint(-n) ELSE FormatUint(n)

TimeKey == <<"t", "i", "m", "e">>
SourceKey == <<"s", "o", "u", "r", "c", "e">>

---------------------------------------------------------------------------
(* unicode/utf8 and strconv, as far as the bytes of the model go.          *)

NonAscii == {"xC2", "xC3", "xA0", "xA9", "xAD", "xFF"}
RuneError == "U+FFFD"

DecodeRuneInString(s) ==
    IF Len(s) >= 2 /\ s[1] = "xC3" /\ s[2] = "xA9" THEN [r |-> "U+00E9", size |-> 2]
    ELSE IF Len(s) >= 2 /\ s[1] = "xC2" /\ s[2] = "xA0" THEN [r |-> "U+00A0", size |-> 2]
    ELSE IF Len(s) >= 2 /\ s[1] = "xC2" /\ s[2] = "xAD" THEN [r |-> "U+00AD", size |-> 2]
    ELSE [r |-> RuneError, size |-> 1]

IsSpace(r) == r \in {"U+00A0"}
IsPrint(r) == r \in {"U+00E9"}

unsafe(b) == b \in {" ", "\"", "="}

\* The loop of needsQuoting visits the first byte of every rune; byte i is
\* the second byte of a rune when a two-byte rune starts at byte i - 1.
needsQuoting(s) ==
    \E i \in 1..Len(s) :
        /\ ~(i > 1 /\ s[i - 1] \in NonAscii
                   /\ DecodeRuneInString(SubSeq(s, i - 1, Len(s))).size = 2)
        /\ IF s[i] \notin NonAscii
           THEN unsafe(s[i])
           ELSE LET d == DecodeRuneInString(SubSeq(s, i, Len(s)))
                IN  d.r = RuneError \/ IsSpace(d.r) \/ ~IsPrint(d.r)

RECURSIVE QuoteBody(_)
QuoteBody(s) ==
    IF s = <<>> THEN <<>>
    ELSE IF s[1] \in NonAscii
    THEN LET d == DecodeRuneInString(s)
             rest == QuoteBody(SubSeq(s, d.size + 1, Len(s)))
         IN  IF d.r = "U+00E9" THEN SubSeq(s, 1, 2) \o rest
             ELSE IF d.r = "U+00A0" THEN <<"\\", "u", "0", "0", "a", "0">> \o rest
             ELSE IF d.r = "U+00AD" THEN <<"\\", "u", "0", "0", "a", "d">> \o rest
             ELSE <<"\\", "x">> \o
                  (CASE s[1] = "xC2" -> <<"c", "2">>
                     [] s[1] = "xC3" -> <<"c", "3">>
                     [] s[1] = "xA0" -> <<"a", "0">>
                     [] s[1] = "xA9" -> <<"a", "9">>
                     [] s[1] = "xAD" -> <<"a", "d">>
                     [] OTHER -> <<"f", "f">>) \o rest
    ELSE (CASE s[1] = "\"" -> <<"\\", "\"">>
            [] s[1] = "\\" -> <<"\\", "\\">>
            [] s[1] = "\n" -> <<"\\", "n">>
            [] OTHER -> <<s[1]>>) \o QuoteBody(Tail(s))

AppendQuote(buf, s) == buf \o <<"\"">> \o QuoteBody(s) \o <<"\"">>

---------------------------------------------------------------------------
(* log/slog values and attributes.                                         *)

StringValue(s) == [kind |-> "String", str |-> s]
IntValue(n) == [kind |-> "Int64", num |-> n]
BoolValue(b) == [kind |-> "Bool", bool |-> b]
TimeValue(t) == [kind |-> "Time", time |-> t]
GroupValue(as) == [kind |-> "Group", attrs |-> as]
AnyValue(x) == [kind |-> "Any", any |-> x]
LogValuerValue(v) == [kind |-> "LogValuer", resolve |-> v]

\* The objects an Any value wraps: nil, an encoding.TextMarshaler whose
\* MarshalText returns data or fails, an object fmt.Sprint renders as text.
NilAny == [type |-> "nil"]
Marshaler(data) == [type |-> "TextMarshaler", err |-> FALSE, data |-> data]
FailingMarshaler == [type |-> "TextMarshaler", err |-> TRUE, data |-> <<>>]
Stringer(text) == [type |-> "Stringer", text |-> text]

Attr(k, v) == [Key |-> k, Value |-> v]
EmptyAttr == Attr(<<>>, AnyValue(NilAny))
AttrEqual(a, b) == a.Key = b.Key /\ a.Value = b.Value

RECURSIVE Resolve(_)
Resolve(v) == IF v.kind = "LogValuer" THEN Resolve(v.resolve) ELSE v

\* time.Time.AppendFormat for the instants and layouts of the model; instant
\* 0 is the zero time.
defaultTimeFormat ==
    <<"2", "0", "0", "6", "-", "0", "1", "-", "0", "2", "T", "0", "3", ":",
      "0", "4", ".", "0", "5", " ", "M", "S", "T">>
DateLayout == <<"2", "0", "0", "6", "-", "0", "1", "-", "0", "2">>

AppendFormat(buf, t, layout) ==
    LET date == IF t = 0
                THEN <<"0", "0", "0", "1", "-", "0", "1", "-", "0", "1">>
                ELSE <<"2", "0", "2", "3", "-", "0", "4", "-", "0", "2">>
        clock == IF t = 0
                 THEN <<"T", "1", "2", ":", "0", "0", ".", "0", "0", " ", "U", "T", "C">>
                 ELSE <<"T", "1", "0", ":", "5", "0", ".", "0", "9", " ", "E", "D", "T">>
    IN  IF layout = DateLayout THEN buf \o date ELSE buf \o date \o clock

\* fmt.Sprint of the object an Any value holds.
Sprint(x) ==
    CASE x.type = "nil" -> <<"<", "n", "i", "l", ">">>
      [] x.type = "Stringer" -> x.text
      [] OTHER -> <<"{", "}">>

---------------------------------------------------------------------------
(* Go slices of strings over the heap of backing arrays.                   *)

SliceElems(arrs, s) == IF s.len = 0 THEN <<>> ELSE SubSeq(arrs[s.ptr], 1, s.len)

\* slices.Clip: s[:len(s):len(s)]
Clip(s) == [s EXCEPT !.cap = s.len]

\* The capacity the runtime's growslice picks for a slice of strings.
GrowCap(oldcap, newlen) ==
    IF newlen > 2 * oldcap THEN newlen ELSE 2 * oldcap

RECURSIVE FreshPtr(_, _, _, _)
FreshPtr(arrs, owner, cap, n) ==
    IF <<owner, cap, n>> \in DOMAIN arrs
    THEN FreshPtr(arrs, owner, cap, n + 1)
    ELSE <<owner, cap, n>>

MakeArray(elems, cap) == [i \in 1..cap |-> IF i <= Len(elems) THEN elems[i] ELSE <<>>]

\* append(s, x) on behalf of handler `owner`: in place when the capacity
\* allows, else into a newly allocated array.  [arrays, slice].
AppendSlice(arrs, s, x, owner) ==
    IF s.len < s.cap
    THEN [arrays |-> [arrs EXCEPT ![s.ptr][s.len + 1] = x],
          slice |-> [s EXCEPT !.len = s.len + 1]]
    ELSE LET newcap == GrowCap(s.cap, s.len + 1)
             p == FreshPtr(arrs, owner, newcap, 0)
             arr == MakeArray(SliceElems(arrs, s) \o <<x>>, newcap)
         IN  [arrays |-> [q \in DOMAIN arrs \cup {p} |-> IF q = p THEN arr ELSE arrs[q]],
              slice |-> [ptr |-> p, len |-> s.len + 1, cap |-> newcap]]

---------------------------------------------------------------------------
(* The rewrite hooks (Options.ReplaceAttr) the model configures.           *)

\* path/filepath.Base of "file:line" text: what follows the last '/'.
RECURSIVE Base(_)
Base(s) ==
    IF \E i \in 1..Len(s) : s[i] = "/"
    THEN Base(Tail(s))
    ELSE s

removeTime(groups, a) ==
    IF a.Key = TimeKey /\ Len(groups) = 0 THEN EmptyAttr ELSE a

\* A hook that rewrites by key and group path: inside any group it deletes
\* the attribute "c"; it renames "b" to "B"; it trims the source to the base
\* of its path, as removeTimeTrimSource does; it passes the rest.
scrub(groups, a) ==
    CASE a.Key = <<"c">> /\ Len(groups) > 0 -> EmptyAttr
      [] a.Key = <<"b">> -> Attr(<<"B">>, a.Value)
      [] a.Key = SourceKey /\ a.Value.kind = "String" ->
            Attr(SourceKey, StringValue(Base(a.Value.str)))
      [] OTHER -> a

ReplaceAttr(hook, groups, a) ==
    CASE hook = "removeTime" -> removeTime(groups, a)
      [] hook = "scrub" -> scrub(groups, a)
      [] OTHER -> a

---------------------------------------------------------------------------
(* The encoder: humane.go:177-185 and 214-274.                             *)

LevelDebug == 0 - 4
LevelInfo == 0
LevelWarn == 4
LevelError == 8

defaultLevel == LevelInfo

levelValues(l) ==
    CASE l = LevelDebug -> <<"D", "E", "B", "U", "G", " ", "|">>
      [] l = LevelInfo -> <<" ", "I", "N", "F", "O", " ", "|">>
      [] l = LevelWarn -> <<" ", "W", "A", "R", "N", " ", "|">>
      [] l = LevelError -> <<"E", "R", "R", "O", "R", " ", "|">>

\* slog.Level.String
LevelString(l) ==
    LET str(base, val) ==
            IF val = 0 THEN base
            ELSE base \o (IF val > 0 THEN <<"+">> ELSE <<>>) \o FormatInt(val)
    IN  IF l < LevelInfo THEN str(<<"D", "E", "B", "U", "G">>, l - LevelDebug)
        ELSE IF l < LevelWarn THEN str(<<"I", "N", "F", "O">>, l - LevelInfo)
        ELSE IF l < LevelError THEN str(<<"W", "A", "R", "N">>, l - LevelWarn)
        ELSE str(<<"E", "R", "R", "O", "R">>, l - LevelError)

appendLevel(buf, level) ==
    IF level \in {LevelDebug, LevelInfo, LevelWarn, LevelError}
    THEN buf \o levelValues(level)
    ELSE buf \o <<" ">> \o LevelString(level) \o <<" ", "|">>

appendString(buf, s) ==
    IF needsQuoting(s) THEN AppendQuote(buf, s) ELSE buf \o s

\* an appendKey that writes every key as it is
appendKeyUnquoted(buf, groups, key) ==
    LET k == IF Len(groups) > 0 THEN Join(groups, <<".">>) \o <<".">> \o key ELSE key
    IN  buf \o <<" ">> \o k \o <<"=">>

appendKey(buf, groups, key) ==
    LET k == IF Len(groups) > 0 THEN Join(groups, <<".">>) \o <<".">> \o key ELSE key
        b == buf \o <<" ">>
    IN  (IF needsQuoting(k) THEN AppendQuote(b, k) ELSE b \o k) \o <<"=">>

\* appendVal for the kinds the model builds (a Float64, Uint64 or Duration
\* is formatted by strconv like an Int64 and is not built).
appendVal(timeFormat, buf, val) ==
    CASE val.kind = "String" -> appendString(buf, val.str)
      [] val.kind = "Int64" -> buf \o FormatInt(val.num)
      [] val.kind = "Bool" ->
            buf \o (IF val.bool THEN <<"t", "r", "u", "e">> ELSE <<"f", "a", "l", "s", "e">>)
      [] val.kind = "Time" ->
            LET quoteTime == needsQuoting(timeFormat)
                q == IF quoteTime THEN <<"\"">> ELSE <<>>
            IN  AppendFormat(buf \o q, val.time, timeFormat) \o q
      [] val.kind = "Any" ->
            IF val.any.type = "TextMarshaler"
            THEN IF val.any.err THEN buf ELSE appendString(buf, val.any.data)
            ELSE appendString(buf, Sprint(val.any))
      [] OTHER -> appendString(buf, <<"{", "}">>)

\* frame(pc) and newSourceAttr: the file:line of the one call site.
newSourceAttr(pc) ==
    Attr(SourceKey, StringValue(<<"/", "p", "/", "m", ".", "g", "o", ":", "7">>))

---------------------------------------------------------------------------
(* appendAttr on an execution state                                        *)
(*   [buf, groups, arrays, calls, panic]                                   *)
(* where groups is the receiver's groups field, arrays the heap, calls the *)
(* arguments the rewrite hook was called with, and panic whether a slice   *)
(* expression went out of range.  h carries the receiver's other fields.   *)

\* h.groups = append(h.groups, a.Key)                       (humane.go:195)
pushGroup(st, key, owner) ==
    LET r == AppendSlice(st.arrays, st.groups, key, owner)
    IN  [st EXCEPT !.arrays = r.arrays, !.groups = r.slice]

\* an appendAttr that does not pop the group it pushed
popGroupForgotten(st) == st

\* h.groups = h.groups[:len(h.groups)-1]                    (humane.go:201)
popGroup(st) ==
    IF st.panic THEN st
    ELSE IF st.groups.len = 0
    THEN [st EXCEPT !.panic = TRUE]
    ELSE [st EXCEPT !.groups.len = st.groups.len - 1]

\* an appendAttr that hands the hook the path with the leaf's own key
appendLeafHookSeesKey(h, st, a, hookGroups, keyGroups) ==
    LET gs == Append(hookGroups, a.Key)
        b == IF h.replaceAttr # "nil" THEN ReplaceAttr(h.replaceAttr, gs, a) ELSE a
        calls == IF h.replaceAttr # "nil"
                 THEN Append(st.calls, [groups |-> gs, attr |-> a, ret |-> b])
                 ELSE st.calls
    IN  IF ~AttrEqual(b, EmptyAttr)
        THEN [st EXCEPT !.calls = calls,
                        !.buf = appendVal(h.timeFormat,
                                          appendKey(st.buf, keyGroups, b.Key), b.Value)]
        ELSE [st EXCEPT !.calls = calls]

\* an appendAttr that does not test the hook's result for the empty Attr
appendLeafKeepsEmpty(h, st, a, hookGroups, keyGroups) ==
    LET b == IF h.replaceAttr # "nil" THEN ReplaceAttr(h.replaceAttr, hookGroups, a) ELSE a
        calls == IF h.replaceAttr # "nil"
                 THEN Append(st.calls, [groups |-> hookGroups, attr |-> a, ret |-> b])
                 ELSE st.calls
    IN  [st EXCEPT !.calls = calls,
                   !.buf = appendVal(h.timeFormat,
                                     appendKey(st.buf, keyGroups, b.Key), b.Value)]

\* The non-group branch of appendAttr (humane.go:205-211); hookGroups and
\* keyGroups are the two reads of h.groups it makes.
appendLeaf(h, st, a, hookGroups, keyGroups) ==
    LET b == IF h.replaceAttr # "nil" THEN ReplaceAttr(h.replaceAttr, hookGroups, a) ELSE a
        calls == IF h.replaceAttr # "nil"
                 THEN Append(st.calls, [groups |-> hookGroups, attr |-> a, ret |-> b])
                 ELSE st.calls
    IN  IF ~AttrEqual(b, EmptyAttr)
        THEN [st EXCEPT !.calls = calls,
                        !.buf = appendVal(h.timeFormat,
                                          appendKey(st.buf, keyGroups, b.Key), b.Value)]
        ELSE [st EXCEPT !.calls = calls]

RECURSIVE appendAttr(_, _, _)
RECURSIVE appendAttrs(_, _, _)

\* an appendAttr that looks at the kind of the value before resolving it
appendAttrUnresolved(h, st, a) ==
    IF st.panic THEN st
    ELSE IF a.Value.kind = "Group"
    THEN IF Len(a.Value.attrs) = 0 THEN st
         ELSE IF a.Key # <<>>
         THEN popGroup(appendAttrs(h, pushGroup(st, a.Key, h.id), a.Value.attrs))
         ELSE appendAttrs(h, st, a.Value.attrs)
    ELSE appendLeaf(h, st, a, SliceElems(st.arrays, st.groups),
                    SliceElems(st.arrays, st.groups))

appendAttr(h, st, a0) ==
    LET a == [a0 EXCEPT !.Value = Resolve(a0.Value)]
    IN  IF st.panic THEN st
        ELSE IF a.Value.kind = "Group"
        THEN IF Len(a.Value.attrs) = 0 THEN st
             ELSE IF a.Key # <<>>
             THEN popGroup(appendAttrs(h, pushGroup(st, a.Key, h.id), a.Value.attrs))
             ELSE appendAttrs(h, st, a.Value.attrs)
        ELSE appendLeaf(h, st, a, SliceElems(st.arrays, st.groups),
                        SliceElems(st.arrays, st.groups))

appendAttrs(h, st, as) ==
    IF as = <<>> THEN st
    ELSE appendAttrs(h, appendAttr(h, st, Head(as)), Tail(as))

---------------------------------------------------------------------------
(* The inputs of the model.                                                *)

a1 == Attr(<<"a">>, IntValue(1))
b2 == Attr(<<"b">>, IntValue(2))
c3 == Attr(<<"c">>, IntValue(3))
d4 == Attr(<<"d">>, IntValue(4))
fooGroup == Attr(<<"f", "o", "o">>, GroupValue(<<c3, Attr(<<"b", "a", "r">>, GroupValue(<<d4>>))>>))
emptyNamed == Attr(<<"e">>, GroupValue(<<>>))
emptyAnon == Attr(<<>>, GroupValue(<<>>))
inlineGroup == Attr(<<>>, GroupValue(<<a1, emptyNamed>>))
nestedEmpty == Attr(<<"k">>, GroupValue(<<emptyAnon, b2>>))
badText == Attr(<<"k">>, AnyValue(FailingMarshaler))
goodText == Attr(<<"t">>, AnyValue(Marshaler(<<"o", " ", "k">>)))
userTime == Attr(TimeKey, StringValue(<<"3", ":", "0", "0", "p", "m">>))
lazy == Attr(<<"v">>, LogValuerValue(GroupValue(<<c3>>)))
lazyEmpty == Attr(<<"z">>, LogValuerValue(GroupValue(<<>>)))

msgMessage == <<"m", "e", "s", "s", "a", "g", "e">>
msgFoo == <<"f", "o", "o">>

Record(msg, t, pc, as) ==
    [Level |-> LevelInfo, Message |-> msg, Time |-> t, PC |-> pc, attrs |-> as]

Records ==
    { Record(msgMessage, 1, 1, <<>>),
      Record(msgMessage, 1, 0, <<fooGroup, c3>>),
      Record(msgMessage, 1, 1, <<fooGroup, c3>>),
      Record(msgFoo, 0, 1, <<emptyNamed, inlineGroup, nestedEmpty, badText, goodText,
                             userTime, lazy, lazyEmpty, emptyAnon>>) }

GroupNames == {<<>>, <<"g">>, <<"h">>}

AttrLists == {<<>>, <<a1>>, <<b2>>, <<emptyNamed, fooGroup, lazyEmpty, badText>>}

\* The Options a root handler is made with.
Options ==
    { [Level |-> <<>>, ReplaceAttr |-> "nil", TimeFormat |-> <<>>, AddSource |-> TRUE],
      [Level |-> <<>>, ReplaceAttr |-> "removeTime", TimeFormat |-> <<>>, AddSource |-> FALSE],
      [Level |-> <<LevelDebug>>, ReplaceAttr |-> "scrub", TimeFormat |-> DateLayout,
       AddSource |-> TRUE] }

\* What the io.Writer does with a Write: it takes the bytes, or it fails.
WriteResults == {"ok", "err"}

---------------------------------------------------------------------------
(* The handler: humane.go:71-175.                                          *)

InitCap == 10

NewHandler(opts) ==
    [id |-> 1, w |-> 1, mu |-> 1,
     level |-> IF opts.Level = <<>> THEN defaultLevel ELSE opts.Level[1],
     groups |-> [ptr |-> <<1, InitCap, 0>>, len |-> 0, cap |-> InitCap],
     attrs |-> <<>>,
     timeFormat |-> IF opts.TimeFormat = <<>> THEN defaultTimeFormat ELSE opts.TimeFormat,
     replaceAttr |-> opts.ReplaceAttr,
     addSource |-> opts.AddSource]

Enabled(h, l) == l >= h.level

\* clone that gives the new handler a mutex of its own
cloneOwnMutex(h, id) == [h EXCEPT !.id = id, !.groups = Clip(h.groups), !.mu = id]

\* clone that leaves the receiver's groups behind
cloneNoGroups(h, id) == [h EXCEPT !.id = id, !.groups = [h.groups EXCEPT !.len = 0, !.cap = 0]]

clone(h, id) == [h EXCEPT !.id = id, !.groups = Clip(h.groups)]

\* An execution state that starts with buffer buf on handler h.
Exec(h, arrs, buf) ==
    [buf |-> buf, groups |-> h.groups, arrays |-> arrs, calls |-> <<>>, panic |-> FALSE]

\* a Handle that writes the time before the attributes of the record
formatTimeFirst(h, arrs, r) ==
    LET head == appendLevel(<<>>, r.Level) \o <<" ">> \o r.Message \o <<" ", "|">> \o h.attrs
        t0 == Attr(TimeKey, TimeValue(r.Time))
        timeAttr == IF h.replaceAttr # "nil" THEN ReplaceAttr(h.replaceAttr, <<>>, t0) ELSE t0
        head2 == IF r.Time # 0 /\ ~AttrEqual(timeAttr, EmptyAttr)
                 THEN appendVal(h.timeFormat, appendKey(head, <<>>, timeAttr.Key),
                                timeAttr.Value)
                 ELSE head
        st1 == appendAttrs(h, Exec(h, arrs, head2), r.attrs)
        st2 == IF h.addSource /\ r.PC # 0
               THEN appendAttr(h, st1, newSourceAttr(r.PC))
               ELSE st1
    IN  [st2 EXCEPT !.buf = st2.buf \o <<"\n">>]

\* Handle up to the newline (humane.go:105-130): the execution state with
\* the assembled line in buf.
format(h, arrs, r) ==
    LET head == appendLevel(<<>>, r.Level) \o <<" ">> \o r.Message \o <<" ", "|">> \o h.attrs
        st1 == appendAttrs(h, Exec(h, arrs, head), r.attrs)
        st2 == IF h.addSource /\ r.PC # 0
               THEN appendAttr(h, st1, newSourceAttr(r.PC))
               ELSE st1
        t0 == Attr(TimeKey, TimeValue(r.Time))
        timeAttr == IF h.replaceAttr # "nil" THEN ReplaceAttr(h.replaceAttr, <<>>, t0) ELSE t0
        calls == IF h.replaceAttr # "nil"
                 THEN Append(st2.calls, [groups |-> <<>>, attr |-> t0, ret |-> timeAttr])
                 ELSE st2.calls
        buf3 == IF r.Time # 0 /\ ~AttrEqual(timeAttr, EmptyAttr)
                THEN appendVal(h.timeFormat, appendKey(st2.buf, <<>>, timeAttr.Key),
                               timeAttr.Value)
                ELSE st2.buf
    IN  IF st2.panic THEN st2
        ELSE [st2 EXCEPT !.calls = calls, !.buf = buf3 \o <<"\n">>]

NoCall == [op |-> "none"]

\* A goroutine that is in no call.
Idle == [pc |-> "idle"]

Init ==
    /\ \E opts \in Options : handlers = <<NewHandler(opts)>>
    /\ arrays = (<<1, InitCap, 0>> :> MakeArray(<<>>, InitCap))
    /\ locks = <<0>>
    /\ sink = <<>>
    /\ chain = << <<>> >>
    /\ gor = [g \in 1..NumGor |-> Idle]
    /\ last = NoCall
    /\ nhandle = 0

\* a WithGroup that clones the receiver whatever the name
WithGroupAlwaysClones(p, name) ==
    LET h == handlers[p]
        h2 == clone(h, Len(handlers) + 1)
        r == IF name = <<>> THEN [arrays |-> arrays, slice |-> h2.groups]
             ELSE AppendSlice(arrays, h2.groups, name, h2.id)
    IN  /\ Len(handlers) < MaxHandlers
        /\ handlers' = Append(handlers, [h2 EXCEPT !.groups = r.slice])
        /\ arrays' = r.arrays
        /\ chain' = Append(chain, IF name = <<>> THEN chain[p]
                                  ELSE Append(chain[p], [type |-> "GroupPush", name |-> name]))
        /\ last' = [op |-> "WithGroup", h |-> p, arg |-> name, ret |-> h2.id]
        /\ locks' = Append(locks, 0)
        /\ UNCHANGED <<sink, gor, nhandle>>

\* h.WithGroup(name), as one step.
WithGroup(p, name) ==
    LET h == handlers[p]
        h2 == clone(h, Len(handlers) + 1)
        r == AppendSlice(arrays, h2.groups, name, h2.id)
    IN  /\ IF name = <<>>
           THEN /\ last' = [op |-> "WithGroup", h |-> p, arg |-> name, ret |-> p]
                /\ UNCHANGED <<handlers, arrays, chain>>
           ELSE /\ Len(handlers) < MaxHandlers
                /\ handlers' = Append(handlers, [h2 EXCEPT !.groups = r.slice])
                /\ arrays' = r.arrays
                /\ chain' = Append(chain, Append(chain[p], [type |-> "GroupPush", name |-> name]))
                /\ last' = [op |-> "WithGroup", h |-> p, arg |-> name, ret |-> h2.id]
        /\ locks' = IF name = <<>> THEN locks ELSE Append(locks, 0)
        /\ UNCHANGED <<sink, gor, nhandle>>

\* h.WithAttrs(attrs), as one step.
WithAttrs(p, as) ==
    LET h == handlers[p]
        h2 == clone(h, Len(handlers) + 1)
        st == appendAttrs(h2, Exec(h2, arrays, <<>>), as)
    IN  /\ IF Len(as) = 0
           THEN /\ last' = [op |-> "WithAttrs", h |-> p, arg |-> as, ret |-> p, calls |-> <<>>]
                /\ UNCHANGED <<handlers, arrays, chain>>
           ELSE /\ Len(handlers) < MaxHandlers
                /\ handlers' = Append(handlers,
                                      [h2 EXCEPT !.groups = st.groups, !.attrs = h.attrs \o st.buf])
                /\ arrays' = st.arrays
                /\ chain' = Append(chain, Append(chain[p], [type |-> "AttrBatch", attrs |-> as]))
                /\ last' = [op |-> "WithAttrs", h |-> p, arg |-> as, ret |-> h2.id,
                            calls |-> st.calls]
        /\ locks' = IF Len(as) = 0 THEN locks ELSE Append(locks, 0)
        /\ UNCHANGED <<sink, gor, nhandle>>

\* h.Handle(ctx, r), as one step: format, lock, write, unlock.
Handle(p, r, wres) ==
    LET h == handlers[p]
        st == format(h, arrays, r)
    IN  /\ nhandle < MaxHandles
        /\ nhandle' = nhandle + 1
        /\ locks[h.mu] = 0
        /\ handlers' = [handlers EXCEPT ![p].groups = st.groups]
        /\ arrays' = st.arrays
        /\ sink' = IF wres = "ok"
                   THEN Append(sink, [call |-> nhandle + 1, bytes |-> st.buf])
                   ELSE sink
        /\ last' = [op |-> "Handle", h |-> p, arg |-> r, buf |-> st.buf, calls |-> st.calls,
                    ret |-> IF wres = "ok" THEN "nil" ELSE "ErrWrite"]
        /\ UNCHANGED <<locks, chain, gor>>

Newest == Len(handlers)

Next ==
    \/ \E name \in GroupNames : WithGroup(Newest, name)
    \/ \E as \in AttrLists : WithAttrs(Newest, as)
    \/ \E p \in DOMAIN handlers, r \in Records, wres \in WriteResults : Handle(p, r, wres)

Spec == Init /\ [][Next]_vars

---------------------------------------------------------------------------
(* Handle step by step, for goroutines that run concurrently.  A step makes *)
(* at most one access to memory other goroutines can reach: a read or a     *)
(* write of a handler's groups field (with the array element an append      *)
(* stores), the mutex, the writer.  A goroutine in Handle is                *)
(*   [pc, h, r, call, buf, calls, stack, cur, hdr, b]                       *)
(* where stack holds, for every appendAttr activation on a group, the       *)
(* children still to visit and whether line 201 pops on return; cur is the  *)
(* attribute in hand, hdr the slice header last read, b the hook's result.  *)

Frame(rest, pop) == [rest |-> rest, pop |-> pop]

\* Handle's lines 122-130 on the goroutine's buffer.
finishLine(h, gs) ==
    LET t0 == Attr(TimeKey, TimeValue(gs.r.Time))
        timeAttr == IF h.replaceAttr # "nil" THEN ReplaceAttr(h.replaceAttr, <<>>, t0) ELSE t0
        calls == IF h.replaceAttr # "nil"
                 THEN Append(gs.calls, [groups |-> <<>>, attr |-> t0, ret |-> timeAttr])
                 ELSE gs.calls
        buf == IF gs.r.Time # 0 /\ ~AttrEqual(timeAttr, EmptyAttr)
               THEN appendVal(h.timeFormat, appendKey(gs.buf, <<>>, timeAttr.Key),
                              timeAttr.Value)
               ELSE gs.buf
    IN  [gs EXCEPT !.pc = "lock", !.calls = calls, !.buf = buf \o <<"\n">>]

\* Run the goroutine up to its next access to shared memory.
RECURSIVE advance(_, _)
advance(h, gs) ==
    IF gs.stack = <<>> THEN finishLine(h, gs)
    ELSE LET n == Len(gs.stack)
             f == gs.stack[n]
         IN  IF f.rest = <<>>
             THEN IF f.pop
                  THEN [gs EXCEPT !.pc = "popRead"]
                  ELSE advance(h, [gs EXCEPT !.stack = SubSeq(gs.stack, 1, n - 1)])
             ELSE LET a == [Head(f.rest) EXCEPT !.Value = Resolve(Head(f.rest).Value)]
                      gs1 == [gs EXCEPT !.stack[n].rest = Tail(f.rest), !.cur = a]
                  IN  IF a.Value.kind = "Group"
                      THEN IF Len(a.Value.attrs) = 0 THEN advance(h, gs1)
                           ELSE IF a.Key # <<>> THEN [gs1 EXCEPT !.pc = "pushRead"]
                           ELSE advance(h, [gs1 EXCEPT
                                    !.stack = Append(gs1.stack, Frame(a.Value.attrs, FALSE))])
                      ELSE [gs1 EXCEPT !.pc = IF h.replaceAttr # "nil" THEN "hook" ELSE "emit"]

Crashed == \E g \in DOMAIN gor : gor[g].pc = "panic"

\* go h.Handle(ctx, r): lines 105-113 and the walk up to the first access.
StartHandle(g, p, r) ==
    LET h == handlers[p]
        top == r.attrs \o (IF h.addSource /\ r.PC # 0 THEN <<newSourceAttr(r.PC)>> ELSE <<>>)
        gs == [pc |-> "start", h |-> p, r |-> r, call |-> nhandle + 1,
               buf |-> appendLevel(<<>>, r.Level) \o <<" ">> \o r.Message \o <<" ", "|">>
                       \o h.attrs,
               calls |-> <<>>, stack |-> <<Frame(top, FALSE)>>, cur |-> EmptyAttr,
               hdr |-> h.groups, b |-> EmptyAttr, ret |-> "nil"]
    IN  /\ ~Crashed
        /\ gor[g].pc = "idle"
        /\ nhandle < MaxConcHandles
        /\ nhandle' = nhandle + 1
        /\ gor' = [gor EXCEPT ![g] = advance(h, gs)]
        /\ UNCHANGED <<handlers, arrays, locks, sink, chain, last>>

\* line 195, the read of h.groups
PushRead(g) ==
    /\ ~Crashed
    /\ gor[g].pc = "pushRead"
    /\ gor' = [gor EXCEPT ![g].pc = "pushWrite", ![g].hdr = handlers[gor[g].h].groups]
    /\ UNCHANGED <<handlers, arrays, locks, sink, chain, last, nhandle>>

\* line 195, the append and the write of h.groups
PushWrite(g) ==
    LET gs == gor[g]
        h == handlers[gs.h]
        r == AppendSlice(arrays, gs.hdr, gs.cur.Key, h.id)
    IN  /\ ~Crashed
        /\ gs.pc = "pushWrite"
        /\ arrays' = r.arrays
        /\ handlers' = [handlers EXCEPT ![gs.h].groups = r.slice]
        /\ gor' = [gor EXCEPT ![g] =
                     advance(h, [gs EXCEPT !.stack = Append(gs.stack,
                                                     Frame(gs.cur.Value.attrs, TRUE))])]
        /\ UNCHANGED <<locks, sink, chain, last, nhandle>>

\* line 201, the read of h.groups and the slice expression
PopRead(g) ==
    LET hdr == handlers[gor[g].h].groups
    IN  /\ ~Crashed
        /\ gor[g].pc = "popRead"
        /\ gor' = [gor EXCEPT ![g].pc = IF hdr.len = 0 THEN "panic" ELSE "popWrite",
                              ![g].hdr = hdr]
        /\ UNCHANGED <<handlers, arrays, locks, sink, chain, last, nhandle>>

\* line 201, the write of h.groups
PopWrite(g) ==
    LET gs == gor[g]
        h == handlers[gs.h]
    IN  /\ ~Crashed
        /\ gs.pc = "popWrite"
        /\ handlers' = [handlers EXCEPT ![gs.h].groups = [gs.hdr EXCEPT !.len = gs.hdr.len - 1]]
        /\ gor' = [gor EXCEPT ![g] =
                     advance(h, [gs EXCEPT !.stack = SubSeq(gs.stack, 1, Len(gs.stack) - 1)])]
        /\ UNCHANGED <<arrays, locks, sink, chain, last, nhandle>>

\* line 206: the read of h.groups for the hook, and the hook
CallHook(g) ==
    LET gs == gor[g]
        h == handlers[gs.h]
        groups == SliceElems(arrays, h.groups)
        b == ReplaceAttr(h.replaceAttr, groups, gs.cur)
        gs1 == [gs EXCEPT !.b = b,
                          !.calls = Append(gs.calls, [groups |-> groups, attr |-> gs.cur,
                                                      ret |-> b])]
    IN  /\ ~Crashed
        /\ gs.pc = "hook"
        /\ gor' = [gor EXCEPT ![g] = IF AttrEqual(b, EmptyAttr)
                                     THEN advance(h, gs1)
                                     ELSE [gs1 EXCEPT !.pc = "emit", !.cur = b]]
        /\ UNCHANGED <<handlers, arrays, locks, sink, chain, last, nhandle>>

\* lines 208-210: the read of h.groups for the key, the key and the value
Emit(g) ==
    LET gs == gor[g]
        h == handlers[gs.h]
        groups == SliceElems(arrays, h.groups)
        buf == IF ~AttrEqual(gs.cur, EmptyAttr)
               THEN appendVal(h.timeFormat, appendKey(gs.buf, groups, gs.cur.Key),
                              gs.cur.Value)
               ELSE gs.buf
    IN  /\ ~Crashed
        /\ gs.pc = "emit"
        /\ gor' = [gor EXCEPT ![g] = advance(h, [gs EXCEPT !.buf = buf])]
        /\ UNCHANGED <<handlers, arrays, locks, sink, chain, last, nhandle>>

\* line 131
Lock(g) ==
    LET mu == handlers[gor[g].h].mu
    IN  /\ ~Crashed
        /\ gor[g].pc = "lock"
        /\ locks[mu] = 0
        /\ locks' = [locks EXCEPT ![mu] = g]
        /\ gor' = [gor EXCEPT ![g].pc = "write"]
        /\ UNCHANGED <<handlers, arrays, sink, chain, last, nhandle>>

\* line 133: the writer takes the first bytes of the buffer, and then either
\* goes on or fails.
Write(g, wres) ==
    LET gs == gor[g]
        half == (Len(gs.buf) + 1) \div 2
    IN  /\ ~Crashed
        /\ gs.pc = "write"
        /\ sink' = Append(sink, [call |-> gs.call, bytes |-> SubSeq(gs.buf, 1, half)])
        /\ gor' = [gor EXCEPT ![g].pc = IF wres = "ok" THEN "writeRest" ELSE "unlock",
                              ![g].ret = IF wres = "ok" THEN "nil" ELSE "ErrWrite"]
        /\ UNCHANGED <<handlers, arrays, locks, chain, last, nhandle>>

\* line 133: the writer takes the rest of the buffer
WriteRest(g) ==
    LET gs == gor[g]
        half == (Len(gs.buf) + 1) \div 2
    IN  /\ ~Crashed
        /\ gs.pc = "writeRest"
        /\ sink' = Append(sink, [call |-> gs.call,
                                 bytes |-> SubSeq(gs.buf, half + 1, Len(gs.buf))])
        /\ gor' = [gor EXCEPT ![g].pc = "unlock"]
        /\ UNCHANGED <<handlers, arrays, locks, chain, last, nhandle>>

\* a Handle that unlocks only after a successful write
UnlockSkippedOnError(g) ==
    LET gs == gor[g]
        mu == handlers[gs.h].mu
    IN  /\ ~Crashed
        /\ gs.pc = "unlock"
        /\ locks' = IF gs.ret = "nil" THEN [locks EXCEPT ![mu] = 0] ELSE locks
        /\ gor' = [gor EXCEPT ![g] = Idle]
        /\ last' = [op |-> "Handle", h |-> gs.h, arg |-> gs.r, buf |-> gs.buf,
                    calls |-> gs.calls, ret |-> gs.ret]
        /\ UNCHANGED <<handlers, arrays, sink, chain, nhandle>>

\* lines 132 and 134: the deferred Unlock and the return
Unlock(g) ==
    LET gs == gor[g]
        mu == handlers[gs.h].mu
    IN  /\ ~Crashed
        /\ gs.pc = "unlock"
        /\ locks' = [locks EXCEPT ![mu] = 0]
        /\ gor' = [gor EXCEPT ![g] = Idle]
        /\ last' = [op |-> "Handle", h |-> gs.h, arg |-> gs.r, buf |-> gs.buf,
                    calls |-> gs.calls, ret |-> gs.ret]
        /\ UNCHANGED <<handlers, arrays, sink, chain, nhandle>>

ConcRecords ==
    { Record(msgFoo, 0, 0, <<Attr(<<"f", "o", "o">>, GroupValue(<<c3>>))>>),
      Record(msgFoo, 0, 0, <<a1>>) }

NextConc ==
    \/ \E p \in DOMAIN handlers, name \in GroupNames :
          ~Crashed /\ Len(handlers) < MaxConcHandlers /\ WithGroup(p, name)
    \/ \E p \in DOMAIN handlers, as \in AttrLists :
          ~Crashed /\ Len(handlers) < MaxConcHandlers /\ WithAttrs(p, as)
    \/ \E g \in DOMAIN gor, p \in DOMAIN handlers, r \in ConcRecords : StartHandle(g, p, r)
    \/ \E g \in DOMAIN gor : PushRead(g)
    \/ \E g \in DOMAIN gor : PushWrite(g)
    \/ \E g \in DOMAIN gor : PopRead(g)
    \/ \E g \in DOMAIN gor : PopWrite(g)
    \/ \E g \in DOMAIN gor : CallHook(g)
    \/ \E g \in DOMAIN gor : Emit(g)
    \/ \E g \in DOMAIN gor : Lock(g)
    \/ \E g \in DOMAIN gor, wres \in WriteResults : Write(g, wres)
    \/ \E g \in DOMAIN gor : WriteRest(g)
    \/ \E g \in DOMAIN gor : Unlock(g)

SpecConc == Init /\ [][NextConc]_vars

---------------------------------------------------------------------------
(* The encoder on levels, messages, keys and values of every kind the       *)
(* quoting and the level table tell apart: one Handle call on a root        *)
(* handler or on a handler derived from it.                                 *)

\* The four levels of the table, and levels between and beyond them.
EncLevels == {LevelDebug, LevelInfo, LevelWarn, LevelError,
              LevelDebug - 4, LevelInfo + 1, LevelInfo + 2, LevelError + 4}

EncMessages == {msgMessage, <<"a", "\n", "b">>, <<"a", " ", "|", " ", "b">>}

\* Keys and string values: plain, with a space, '=', '"', a backslash, a
\* newline, a printable rune, a no-break space, a soft hyphen, an invalid
\* byte, and the empty value.
EncKeys ==
    { <<"f", "o", "o">>, <<"f", "o", "o", " ", "f", "o", "o">>,
      <<"f", "o", "o", "=", "f", "o", "o">>, <<"f", "o", "o", "\"", "f", "o", "o">>,
      <<"k", "\n">>, <<"xC3", "xA9">>, <<"k", "xFF">> }

EncValues ==
    { <<"b", "a", "r">>, <<"b", "a", "r", " ", "b", "a", "r">>,
      <<"b", "a", "r", "=", "b", "a", "r">>, <<"b", "a", "r", "\"", "b", "a", "r">>,
      <<"a", "\\", "b">>, <<"a", "\n", "b">>, <<"xC3", "xA9", "t", "xC3", "xA9">>,
      <<"a", "xC2", "xA0", "b">>, <<"xC2", "xAD">>, <<"xA9">>, <<>> }

LevelRecord(l, msg) == [Record(msg, 0, 0, <<>>) EXCEPT !.Level = l]

EncRecords ==
    {LevelRecord(l, m) : l \in EncLevels, m \in EncMessages}
    \cup {Record(msgMessage, 0, 0, <<Attr(k, StringValue(v))>>) : k \in EncKeys, v \in EncValues}

EncGroupNames == {<<"g">>, <<"g", " ", "g">>}

EncAttrLists == {<<Attr(k, StringValue(<<"b", "a", "r">>))>> : k \in EncKeys}

NextEnc ==
    \/ \E name \in EncGroupNames :
          Len(handlers) < MaxEncHandlers /\ WithGroup(Newest, name)
    \/ \E as \in EncAttrLists :
          Len(handlers) < MaxEncHandlers /\ WithAttrs(Newest, as)
    \/ \E p \in DOMAIN handlers, r \in EncRecords, wres \in WriteResults : Handle(p, r, wres)

SpecEnc == Init /\ [][NextEnc]_vars

---------------------------------------------------------------------------
(* The reference the claims compare the handler with: spec.md 4.2-4.4, on a *)
(* group path that is passed down and never updated in place.               *)

IsPrefix(p, q) == Len(p) <= Len(q) /\ SubSeq(q, 1, Len(p)) = p

\* The leaves of an attribute list in order, each with the path of the
\* groups around it.
RECURSIVE RefLeaves(_, _)
RefLeaves(path, as) ==
    IF as = <<>> THEN <<>>
    ELSE LET a == Head(as)
             v == Resolve(a.Value)
         IN  (IF v.kind = "Group"
              THEN RefLeaves(IF a.Key = <<>> THEN path ELSE Append(path, a.Key), v.attrs)
              ELSE << [groups |-> path, attr |-> Attr(a.Key, v)] >>)
             \o RefLeaves(path, Tail(as))

RefHook(hook, leaf) ==
    IF hook = "nil" THEN leaf.attr ELSE ReplaceAttr(hook, leaf.groups, leaf.attr)

\* " key=value" for the attribute b under the group path.
RefToken(tf, path, b) ==
    <<" ">> \o appendString(<<>>, Join(Append(path, b.Key), <<".">>)) \o <<"=">>
    \o appendVal(tf, <<>>, b.Value)

RECURSIVE RefTokens(_, _, _)
RefTokens(hook, tf, leaves) ==
    IF leaves = <<>> THEN <<>>
    ELSE LET b == RefHook(hook, Head(leaves))
         IN  (IF AttrEqual(b, EmptyAttr) THEN <<>> ELSE RefToken(tf, Head(leaves).groups, b))
             \o RefTokens(hook, tf, Tail(leaves))

\* The group names a derivation chain has pushed.
RECURSIVE RefPath(_)
RefPath(frames) ==
    IF frames = <<>> THEN <<>>
    ELSE (IF Head(frames).type = "GroupPush" THEN <<Head(frames).name>> ELSE <<>>)
         \o RefPath(Tail(frames))

\* The replay of a derivation chain, oldest frame first, from frame i on.
RECURSIVE RefReplay(_, _, _, _)
RefReplay(hook, tf, frames, i) ==
    IF i > Len(frames) THEN <<>>
    ELSE (IF frames[i].type = "AttrBatch"
          THEN RefTokens(hook, tf, RefLeaves(RefPath(SubSeq(frames, 1, i - 1)), frames[i].attrs))
          ELSE <<>>)
         \o RefReplay(hook, tf, frames, i + 1)

HeadOf(r) == appendLevel(<<>>, r.Level) \o <<" ">> \o r.Message \o <<" ", "|">>

GroupPush(name) == [type |-> "GroupPush", name |-> name]
AttrBatch(as) == [type |-> "AttrBatch", attrs |-> as]

---------------------------------------------------------------------------
(* C1: for every chain of WithGroup and WithAttrs derivations, the          *)
(* attributes a WithAttrs step recorded are emitted under exactly the       *)
(* groups pushed before that step, whatever is pushed later, and the        *)
(* attributes of the event under all the groups pushed.                     *)
C1_GroupPrefixesFollowCallOrder ==
    /\ \A h \in DOMAIN handlers :
          handlers[h].attrs =
              RefReplay(handlers[h].replaceAttr, handlers[h].timeFormat, chain[h], 1)
    /\ last.op = "Handle" =>
          LET h == handlers[last.h]
          IN  IsPrefix(HeadOf(last.arg) \o h.attrs
                       \o RefTokens(h.replaceAttr, h.timeFormat,
                                    RefLeaves(RefPath(chain[last.h]), last.arg.attrs)),
                       last.buf)

\* WithGroup("g").WithAttrs(a=1).WithGroup("h").WithAttrs(b=2), then "message".
C1_Witness ==
    /\ last.op = "Handle"
    /\ chain[last.h] = <<GroupPush(<<"g">>), AttrBatch(<<a1>>), GroupPush(<<"h">>),
                         AttrBatch(<<b2>>)>>
    /\ last.arg = Record(msgMessage, 1, 1, <<>>)
    /\ last.buf = <<" ", "I", "N", "F", "O", " ", "|", " ", "m", "e", "s", "s", "a", "g", "e",
                    " ", "|", " ", "g", ".", "a", "=", "1", " ", "g", ".", "h", ".", "b",
                    "=", "2", "\n">>

---------------------------------------------------------------------------
(* C5: WithGroup("") and WithAttrs of an empty list return the handler they *)
(* were called on and allocate none; with a name or a non-empty list they   *)
(* return a newly allocated handler, distinct from the receiver.            *)
C5_EmptyDerivationReturnsReceiver ==
    [][(last' # last /\ last'.op \in {"WithGroup", "WithAttrs"}) =>
          IF last'.arg = <<>>
          THEN last'.ret = last'.h /\ handlers' = handlers
          ELSE /\ last'.ret # last'.h
               /\ last'.ret = Len(handlers) + 1
               /\ Len(handlers') = Len(handlers) + 1
               /\ SubSeq(handlers', 1, Len(handlers)) = handlers]_vars

C5_Witness ==
    /\ last.op = "WithAttrs"
    /\ last.arg = <<>>
    /\ last.h = 3
    /\ last.ret = 3
    /\ Len(handlers) = 3

---------------------------------------------------------------------------
(* C6: a Group whose list of children is empty adds nothing to the line:    *)
(* what Handle and WithAttrs produce is what they produce for the same      *)
(* attributes with every such group taken out, at any depth.                *)

RECURSIVE StripEmptyGroups(_)
StripEmptyGroups(as) ==
    IF as = <<>> THEN <<>>
    ELSE LET a == Head(as)
             v == Resolve(a.Value)
         IN  (IF v.kind = "Group"
              THEN IF v.attrs = <<>> THEN <<>>
                   ELSE <<Attr(a.Key, GroupValue(StripEmptyGroups(v.attrs)))>>
              ELSE <<Attr(a.Key, v)>>)
             \o StripEmptyGroups(Tail(as))

C6_EmptyGroupAddsNothing ==
    /\ last.op = "Handle" =>
          last.buf = format(handlers[last.h], arrays,
                            [last.arg EXCEPT !.attrs = StripEmptyGroups(last.arg.attrs)]).buf
    /\ (last.op = "WithAttrs" /\ last.ret # last.h) =>
          handlers[last.ret].attrs =
              handlers[last.h].attrs
              \o appendAttrs(handlers[last.h], Exec(handlers[last.h], arrays, <<>>),
                             StripEmptyGroups(last.arg)).buf

\* A record with named, anonymous, nested and lazily resolved empty groups,
\* handled by a handler that recorded an empty group with WithAttrs.
C6_Witness ==
    /\ last.op = "Handle"
    /\ \E i \in 1..Len(last.arg.attrs) : last.arg.attrs[i] = emptyNamed
    /\ \E i \in 1..Len(last.arg.attrs) : last.arg.attrs[i] = nestedEmpty
    /\ \E i \in 1..Len(last.arg.attrs) : last.arg.attrs[i] = lazyEmpty
    /\ \E i \in 1..Len(chain[last.h]) :
          /\ chain[last.h][i].type = "AttrBatch"
          /\ chain[last.h][i].attrs[1] = emptyNamed
    /\ last.ret = "nil"

---------------------------------------------------------------------------
(* C7: flattening emits the children of a group with key k under the path   *)
(* plus k, those of a group without key under the path, a sibling after the *)
(* group under the path again, and every leaf with the key made of the path *)
(* joined by '.' and the leaf's key; after the call the handler's path is   *)
(* the one it was derived with.                                             *)

NoSourceNoTime(h, r) ==
    /\ ~(h.addSource /\ r.PC # 0)
    /\ (r.Time = 0 \/ h.replaceAttr = "removeTime")

C7_GroupsFlattenUnderPath ==
    /\ \A h \in DOMAIN handlers : SliceElems(arrays, handlers[h].groups) = RefPath(chain[h])
    /\ (last.op = "WithAttrs" /\ last.ret # last.h) =>
          LET h == handlers[last.h]
          IN  handlers[last.ret].attrs =
                  h.attrs \o RefTokens(h.replaceAttr, h.timeFormat,
                                       RefLeaves(RefPath(chain[last.h]), last.arg))
    /\ last.op = "Handle" =>
          LET h == handlers[last.h]
              section == HeadOf(last.arg) \o h.attrs
                         \o RefTokens(h.replaceAttr, h.timeFormat,
                                      RefLeaves(RefPath(chain[last.h]), last.arg.attrs))
          IN  IF NoSourceNoTime(h, last.arg)
              THEN last.buf = section \o <<"\n">>
              ELSE IsPrefix(section \o <<" ">>, last.buf)

\* Group("foo", c=3, Group("bar", d=4)) and then c=3, on the root handler.
C7_Witness ==
    /\ last.op = "Handle"
    /\ last.h = 1
    /\ last.arg = Record(msgMessage, 1, 0, <<fooGroup, c3>>)
    /\ last.buf = <<" ", "I", "N", "F", "O", " ", "|", " ", "m", "e", "s", "s", "a", "g", "e",
                    " ", "|", " ", "f", "o", "o", ".", "c", "=", "3", " ", "f", "o", "o", ".",
                    "b", "a", "r", ".", "d", "=", "4", " ", "c", "=", "3", "\n">>

---------------------------------------------------------------------------
(* C8: the rewrite hook is called on every leaf WithAttrs records and on    *)
(* every leaf of the event, each with the path of the groups around it and  *)
(* without its own key, then on the source attribute if there is one, then  *)
(* on the time attribute, and on nothing else (not on level or message);    *)
(* the tokens of the line are those of the attributes the hook returned.    *)

\* The token a call of the hook leaves in the text.
EmittedFor(tf, c) ==
    IF AttrEqual(c.ret, EmptyAttr) THEN <<>> ELSE RefToken(tf, c.groups, c.ret)

RECURSIVE EmittedForAll(_, _)
EmittedForAll(tf, cs) ==
    IF cs = <<>> THEN <<>> ELSE EmittedFor(tf, Head(cs)) \o EmittedForAll(tf, Tail(cs))

CallsMatchLeaves(hook, cs, leaves) ==
    /\ Len(cs) >= Len(leaves)
    /\ \A i \in 1..Len(leaves) :
          /\ cs[i].groups = leaves[i].groups
          /\ cs[i].attr = leaves[i].attr
    /\ \A i \in 1..Len(cs) : cs[i].ret = ReplaceAttr(hook, cs[i].groups, cs[i].attr)

---------------------------------------------------------------------------
(* C9: an attribute for which the hook returns the empty Attr leaves no     *)
(* token: the line has one token per call of the hook that returned another *)
(* attribute (the time of a record without timestamp aside), and when the   *)
(* hook returned the empty Attr every time and nothing was recorded with    *)
(* WithAttrs the line is the level label, the message, " |" and a newline.  *)

\* The number of backslashes that stand directly before position i of s.
BackslashRun(s, i) ==
    CHOOSE n \in 0..(i - 1) :
        /\ \A j \in (i - n)..(i - 1) : s[j] = "\\"
        /\ (n = i - 1 \/ s[i - n - 1] # "\\")

\* The positions of the double quotes of s that open or close a quoted text.
QuoteMarks(s) == {i \in 1..Len(s) : s[i] = "\"" /\ BackslashRun(s, i) % 2 = 0}

\* The number of '=' of a text that stand outside double quotes: its tokens.
CountTokens(s) ==
    LET marks == QuoteMarks(s)
    IN  Cardinality({i \in 1..Len(s) :
                        s[i] = "=" /\ Cardinality({j \in marks : j < i}) % 2 = 0})

Kept(cs) == {i \in 1..Len(cs) : ~AttrEqual(cs[i].ret, EmptyAttr)}

C9_EmptyAttrFromHookLeavesNoToken ==
    /\ (last.op = "WithAttrs" /\ last.ret # last.h
        /\ handlers[last.h].replaceAttr # "nil") =>
          CountTokens(handlers[last.ret].attrs) =
              CountTokens(handlers[last.h].attrs) + Cardinality(Kept(last.calls))
    /\ (last.op = "Handle" /\ handlers[last.h].replaceAttr # "nil") =>
          LET h == handlers[last.h]
              m == Len(last.calls)
              rest == SubSeq(last.buf, Len(HeadOf(last.arg)) + 1, Len(last.buf))
              kept == Kept(last.calls) \ (IF last.arg.Time = 0 THEN {m} ELSE {})
          IN  /\ IsPrefix(HeadOf(last.arg), last.buf)
              /\ CountTokens(rest) = CountTokens(h.attrs) + Cardinality(kept)
              /\ (Kept(last.calls) = {} /\ h.attrs = <<>>) =>
                    last.buf = HeadOf(last.arg) \o <<"\n">>

\* The hook removes the time of a record that has no other attribute.
C9_Witness ==
    /\ last.op = "Handle"
    /\ handlers[last.h].replaceAttr = "removeTime"
    /\ last.arg = Record(msgMessage, 1, 1, <<>>)
    /\ last.calls = << [groups |-> <<>>, attr |-> Attr(TimeKey, TimeValue(1)),
                        ret |-> EmptyAttr] >>
    /\ last.buf = <<" ", "I", "N", "F", "O", " ", "|", " ", "m", "e", "s", "s", "a", "g", "e",
                    " ", "|", "\n">>

---------------------------------------------------------------------------
(* C10: an attribute whose value fails to marshal to text leaves no token,  *)
(* neither key nor value: the line is the line of the record without that   *)
(* attribute, and Handle returns the writer's result.                       *)

RECURSIVE DropFailing(_)
DropFailing(as) ==
    IF as = <<>> THEN <<>>
    ELSE LET a == Head(as)
             v == Resolve(a.Value)
         IN  (IF v.kind = "Group" THEN <<Attr(a.Key, GroupValue(DropFailing(v.attrs)))>>
              ELSE IF v.kind = "Any" /\ v.any.type = "TextMarshaler" /\ v.any.err THEN <<>>
              ELSE <<Attr(a.Key, v)>>)
             \o DropFailing(Tail(as))

C10_FailingMarshalerDropsAttribute ==
    last.op = "Handle" =>
        /\ last.buf = format(handlers[last.h], arrays,
                             [last.arg EXCEPT !.attrs = DropFailing(last.arg.attrs)]).buf
        /\ last.ret \in {"nil", "ErrWrite"}

---------------------------------------------------------------------------
(* C2: Handle calls that run concurrently, on one handler or on handlers    *)
(* derived from one root, all complete, and each writes the line it would   *)
(* write if it ran alone.                                                   *)

\* The line Handle assembles for r on handler p when nothing else runs.
AloneLine(p, r) ==
    LET path == RefPath(chain[p])
        own == <<0, 0, 0>>
        h == [handlers[p] EXCEPT !.groups = [ptr |-> own, len |-> Len(path), cap |-> Len(path)]]
    IN  format(h, (own :> path), r).buf

C2_ConcurrentHandleWritesItsOwnLine ==
    /\ ~Crashed
    /\ (last.op = "Handle" /\ last.ret = "nil") => last.buf = AloneLine(last.h, last.arg)

---------------------------------------------------------------------------
(* C3: the root handler and the handlers derived from it share one mutex;   *)
(* at most one Handle call is in the writer at a time, holding that mutex;  *)
(* the bytes the writer receives from one call are not separated by bytes   *)
(* of another, and a call whose write succeeds has handed over its whole    *)
(* line, newline included, in that one write.                               *)

InWrite(g) == gor[g].pc \in {"write", "writeRest", "unlock"}

RECURSIVE BytesOf(_, _)
BytesOf(chunks, call) ==
    IF chunks = <<>> THEN <<>>
    ELSE (IF Head(chunks).call = call THEN Head(chunks).bytes ELSE <<>>)
         \o BytesOf(Tail(chunks), call)

C3_SinkWritesAreExclusive ==
    /\ \A h \in DOMAIN handlers : handlers[h].mu = handlers[1].mu
    /\ \A g1, g2 \in DOMAIN gor : (InWrite(g1) /\ InWrite(g2)) => g1 = g2
    /\ \A g \in DOMAIN gor : InWrite(g) => locks[handlers[gor[g].h].mu] = g
    /\ \A i, j \in DOMAIN sink :
          (i < j /\ sink[i].call = sink[j].call) =>
              \A k \in i..j : sink[k].call = sink[i].call
    /\ \A g \in DOMAIN gor :
          (gor[g].pc = "unlock" /\ gor[g].ret = "nil") =>
              /\ BytesOf(sink, gor[g].call) = gor[g].buf
              /\ gor[g].buf[Len(gor[g].buf)] = "\n"

\* One call is in the middle of its write on one handler while another call,
\* on another handler of the same root, waits for the mutex.
C3_Witness ==
    \E g1, g2 \in DOMAIN gor :
        /\ gor[g1].pc = "writeRest"
        /\ gor[g2].pc = "lock"
        /\ gor[g1].h # gor[g2].h
        /\ locks[handlers[gor[g2].h].mu] = g1

---------------------------------------------------------------------------
(* C4: a derivation leaves every existing handler and every array it shares *)
(* with them as they were, and the new handler's group path is the path the *)
(* receiver was derived with, followed by the new name if there is one,     *)
(* also while Handle calls run on the receiver.                             *)
C4_DerivationLeavesParentAlone ==
    [][Len(handlers') = Len(handlers) + 1 =>
          LET n == Len(handlers')
          IN  /\ SubSeq(handlers', 1, n - 1) = handlers
              /\ \A q \in DOMAIN arrays : arrays'[q] = arrays[q]
              /\ SliceElems(arrays', handlers'[n].groups) = RefPath(chain'[n])
              /\ RefPath(chain'[n]) =
                     RefPath(chain[last'.h])
                     \o (IF last'.op = "WithGroup" THEN <<last'.arg>> ELSE <<>>)]_vars

---------------------------------------------------------------------------
(* C11: Handle returns nil when the writer took the whole line and the      *)
(* writer's error when the write failed, after one Write and no second      *)
(* attempt; the steps from the Write to the return change no handler, and   *)
(* on either outcome the mutex is free once Handle has returned, so that a  *)
(* mutex is held only by a call that stands between Lock and Unlock.        *)

\* The number of Write steps the sink has seen from one call.
ChunksOf(call) == Cardinality({i \in DOMAIN sink : sink[i].call = call})

ReturnMatchesWrite ==
    /\ \A g \in DOMAIN gor :
          gor[g].pc = "unlock" =>
              /\ gor[g].ret \in {"nil", "ErrWrite"}
              /\ gor[g].ret = "nil" <=> BytesOf(sink, gor[g].call) = gor[g].buf
              /\ ChunksOf(gor[g].call) <= 2
              /\ gor[g].ret = "ErrWrite" => ChunksOf(gor[g].call) = 1
    /\ \A m \in DOMAIN locks :
          locks[m] # 0 =>
              /\ InWrite(locks[m])
              /\ handlers[gor[locks[m]].h].mu = m
    /\ last.op = "Handle" => last.ret \in {"nil", "ErrWrite"}

C11_HandleReturnsTheWriteError ==
    [][/\ ReturnMatchesWrite'
       /\ \A g \in DOMAIN gor :
             (InWrite(g) /\ gor'[g] # gor[g]) =>
                 /\ handlers' = handlers
                 /\ arrays' = arrays
                 /\ gor[g].pc = "unlock" =>
                       /\ gor'[g] = Idle
                       /\ last'.ret = gor[g].ret
                       /\ locks'[handlers[gor[g].h].mu] = 0]_vars

\* A call whose write failed has returned the error, and another call, on
\* another handler of the root, has then taken the mutex and handed its
\* whole line to the writer.
C11_Witness ==
    /\ last.op = "Handle"
    /\ last.ret = "ErrWrite"
    /\ \E g \in DOMAIN gor :
          /\ gor[g].pc = "unlock"
          /\ gor[g].ret = "nil"
          /\ gor[g].h # last.h
          /\ locks[handlers[gor[g].h].mu] = g
          /\ BytesOf(sink, gor[g].call) = gor[g].buf
          /\ sink[1].call # gor[g].call

---------------------------------------------------------------------------
(* C12: the line Handle writes is the level label, a space, the message and *)
(* " |", then the tokens of the attributes recorded by WithAttrs in the     *)
(* order of the derivations, then those of the attributes of the record in  *)
(* their order, then the token of the source attribute if AddSource is on   *)
(* and the record has a program counter, then the token of the time unless  *)
(* the hook dropped it or the record's time is zero, then one newline; a    *)
(* line without tokens ends in " |" and the newline.  The statement fixes   *)
(* the place of the source token, not the group path of its key.            *)

Prefixes(path) == {SubSeq(path, 1, n) : n \in 0..Len(path)}

\* The line made of the parts above, with the source token (under the path
\* q) when hasSource.
GrammarLine(p, r, hasSource, q) ==
    LET h == handlers[p]
        hook == h.replaceAttr
        tf == h.timeFormat
    IN  HeadOf(r)
        \o RefReplay(hook, tf, chain[p], 1)
        \o RefTokens(hook, tf, RefLeaves(RefPath(chain[p]), r.attrs))
        \o (IF hasSource
            THEN RefTokens(hook, tf, << [groups |-> q, attr |-> newSourceAttr(r.PC)] >>)
            ELSE <<>>)
        \o (IF r.Time # 0
            THEN RefTokens(hook, tf, << [groups |-> <<>>,
                                         attr |-> Attr(TimeKey, TimeValue(r.Time))] >>)
            ELSE <<>>)
        \o <<"\n">>

---------------------------------------------------------------------------
(* C13: the level label is as wide for every level: "DEBUG |", " INFO |",   *)
(* " WARN |" and "ERROR |" for the levels of the table, and the name of any *)
(* other level padded to that width, so that the first '|' of every line is *)
(* in the same column.                                                      *)

\* The column of the first '|' of a line.
FirstBar(line) == CHOOSE i \in 1..Len(line) : line[i] = "|" /\ \A j \in 1..(i - 1) : line[j] # "|"

C13_LevelLabelsHaveOneWidth ==
    last.op = "Handle" =>
        /\ last.arg.Level = LevelDebug => IsPrefix(<<"D", "E", "B", "U", "G", " ", "|">>, last.buf)
        /\ last.arg.Level = LevelInfo => IsPrefix(<<" ", "I", "N", "F", "O", " ", "|">>, last.buf)
        /\ last.arg.Level = LevelWarn => IsPrefix(<<" ", "W", "A", "R", "N", " ", "|">>, last.buf)
        /\ last.arg.Level = LevelError => IsPrefix(<<"E", "R", "R", "O", "R", " ", "|">>, last.buf)
        /\ FirstBar(last.buf) = 7

---------------------------------------------------------------------------
(* C14: one predicate decides the quoting of keys and of string values: a   *)
(* key with its group prefix, or a string value, is written between double  *)
(* quotes with escapes exactly when it holds a space, a double quote, an    *)
(* equals sign, or a non-ASCII unit that is an invalid encoding, a white    *)
(* space or a non-printable code point, and as it is otherwise; key foo     *)
(* with value "bar bar" gives foo="bar bar".                                *)

\* The code points of a string, an ASCII byte standing for itself.
RECURSIVE Runes(_)
Runes(s) ==
    IF s = <<>> THEN <<>>
    ELSE IF s[1] \notin NonAscii THEN <<s[1]>> \o Runes(Tail(s))
    ELSE LET d == DecodeRuneInString(s)
         IN  <<d.r>> \o Runes(SubSeq(s, d.size + 1, Len(s)))

MustQuote(s) ==
    \E i \in DOMAIN Runes(s) :
        LET u == Runes(s)[i]
        IN  \/ u \in {" ", "\"", "="}
            \/ u = RuneError
            \/ IsSpace(u)
            \/ (Len(u) > 1 /\ ~IsPrint(u))

Written(s) == IF MustQuote(s) THEN AppendQuote(<<>>, s) ELSE s

\* The tokens of the leaves, quoted by the predicate above.
RECURSIVE QuotedTokens(_, _, _)
QuotedTokens(hook, tf, leaves) ==
    IF leaves = <<>> THEN <<>>
    ELSE LET b == RefHook(hook, Head(leaves))
             key == Join(Append(Head(leaves).groups, b.Key), <<".">>)
             val == IF b.Value.kind = "String" THEN Written(b.Value.str)
                    ELSE appendVal(tf, <<>>, b.Value)
         IN  (IF AttrEqual(b, EmptyAttr) THEN <<>>
              ELSE <<" ">> \o Written(key) \o <<"=">> \o val)
             \o QuotedTokens(hook, tf, Tail(leaves))

C14_OnePredicateQuotesKeysAndValues ==
    /\ (last.op = "WithAttrs" /\ last.ret # last.h) =>
          LET h == handlers[last.h]
          IN  handlers[last.ret].attrs =
                  h.attrs \o QuotedTokens(h.replaceAttr, h.timeFormat,
                                          RefLeaves(RefPath(chain[last.h]), last.arg))
    /\ last.op = "Handle" =>
          LET h == handlers[last.h]
              r == last.arg
          IN  /\ last.buf =
                     HeadOf(r) \o h.attrs
                     \o QuotedTokens(h.replaceAttr, h.timeFormat,
                                     RefLeaves(RefPath(chain[last.h]), r.attrs))
                     \o <<"\n">>
              /\ (chain[last.h] = <<>>
                  /\ r = Record(msgMessage, 0, 0,
                                <<Attr(<<"f", "o", "o">>,
                                       StringValue(<<"b", "a", "r", " ", "b", "a", "r">>))>>)) =>
                    last.buf = <<" ", "I", "N", "F", "O", " ", "|", " ", "m", "e", "s", "s",
                                 "a", "g", "e", " ", "|", " ", "f", "o", "o", "=", "\"", "b",
                                 "a", "r", " ", "b", "a", "r", "\"", "\n">>

\* Key "foo=foo" with value bar, on a handler of the group "g g": the dotted
\* key is quoted as a whole and the value is not.
C14_Witness ==
    /\ last.op = "Handle"
    /\ chain[last.h] = <<GroupPush(<<"g", " ", "g">>)>>
    /\ last.arg = Record(msgMessage, 0, 0,
                         <<Attr(<<"f", "o", "o", "=", "f", "o", "o">>,
                                StringValue(<<"b", "a", "r">>))>>)
    /\ last.buf = <<" ", "I", "N", "F", "O", " ", "|", " ", "m", "e", "s", "s", "a", "g", "e",
                    " ", "|", " ", "\"", "g", " ", "g", ".", "f", "o", "o", "=", "f", "o", "o",
                    "\"", "=", "b", "a", "r", "\n">>

---------------------------------------------------------------------------
(* C15: Handle hands the time attribute to the rewrite hook only when the   *)
(* time of the record is not zero: for a record with the zero time the hook *)
(* is not called on a time attribute, and the line has no time token.       *)

\* The hook was called with the attribute Handle builds for the time.
HookSawTime(cs, r) ==
    \E i \in DOMAIN cs : cs[i].groups = <<>> /\ cs[i].attr = Attr(TimeKey, TimeValue(r.Time))

C15_HookSkipsZeroTime ==
    (last.op = "Handle" /\ handlers[last.h].replaceAttr # "nil") =>
        /\ HookSawTime(last.calls, last.arg) <=> last.arg.Time # 0
        /\ last.arg.Time = 0 =>
              LET n == Len(last.buf)
                  m == Len(last.calls)
                  tok == EmittedFor(handlers[last.h].timeFormat, last.calls[m])
              IN  m > 0 => ~(/\ last.calls[m].attr.Key = TimeKey
                             /\ last.calls[m].attr.Value.kind = "Time"
                             /\ tok # <<>>
                             /\ n > Len(tok)
                             /\ SubSeq(last.buf, n - Len(tok), n - 1) = tok)

---------------------------------------------------------------------------
(* C16: the hook receives the source attribute and the time attribute with  *)
(* an empty group path on every handler, also one derived with WithGroup,   *)
(* and unless the hook changes their keys they are written as "source" and  *)
(* "time", without the names of the handler's groups before them.           *)

\* The calls of the hook on the attributes Handle builds itself.
BuiltIn(cs, r) ==
    {i \in DOMAIN cs : cs[i].attr \in {newSourceAttr(r.PC), Attr(TimeKey, TimeValue(r.Time))}}

C16_BuiltInAttrsHaveNoGroupPath ==
    last.op = "Handle" =>
        LET h == handlers[last.h]
            r == last.arg
            tf == h.timeFormat
            src == RefTokens(h.replaceAttr, tf,
                             << [groups |-> <<>>, attr |-> newSourceAttr(r.PC)] >>)
            time == IF r.Time = 0 THEN <<>>
                    ELSE RefTokens(h.replaceAttr, tf,
                                   << [groups |-> <<>>,
                                       attr |-> Attr(TimeKey, TimeValue(r.Time))] >>)
            tail == (IF h.addSource /\ r.PC # 0 THEN src ELSE <<>>) \o time \o <<"\n">>
            n == Len(last.buf)
        IN  /\ \A i \in BuiltIn(last.calls, r) : last.calls[i].groups = <<>>
            /\ n >= Len(tail)
            /\ SubSeq(last.buf, n - Len(tail) + 1, n) = tail

---------------------------------------------------------------------------
(* C17: the bytes of every Handle call are one line: they hold exactly one  *)
(* newline, their last byte, whatever the message, the keys and the string  *)
(* values hold, control characters such as a newline included.              *)

Newlines(line) == {i \in 1..Len(line) : line[i] = "\n"}

C17_OneNewlineAtTheEnd ==
    last.op = "Handle" => Newlines(last.buf) = {Len(last.buf)}

====
